---- MODULE Spec2Model ----
(***************************************************************************)
(* A model of the relational-algebra batch evaluator SimpleDB, in its two  *)
(* variants "Project 1/Fileread.py" and "Project 1/newonetest.py".         *)
(*                                                                         *)
(* Python strings are sequences of one-character strings, so that split,   *)
(* strip, startswith and the `in` test act on characters as they do in     *)
(* the source.  A Python list of rows is a sequence of rows, a row a       *)
(* sequence of values, a value a string.  The relation store is the dict   *)
(* self.relations; a dict iterates in insertion order, so the store is a   *)
(* sequence of entries in the order os.listdir produced the files.         *)
(***************************************************************************)
EXTENDS Integers, Sequences, FiniteSets, TLC

VARIABLES impl, relations, queries, results, out_file, pc

vars == <<impl, relations, queries, results, out_file, pc>>

-----------------------------------------------------------------------------
(* Python str primitives, character by character.                          *)

\* str.strip() with no argument removes these characters
Whitespace == {" ", "\t", "\n", "\r"}

Digits == {"0", "1", "2", "3", "4", "5", "6", "7", "8", "9"}

DigitValue(c) ==
    CASE c = "0" -> 0 [] c = "1" -> 1 [] c = "2" -> 2 [] c = "3" -> 3
      [] c = "4" -> 4 [] c = "5" -> 5 [] c = "6" -> 6 [] c = "7" -> 7
      [] c = "8" -> 8 [] c = "9" -> 9

Drop(s, n) == SubSeq(s, n + 1, Len(s))

Take(s, n) == SubSeq(s, 1, n)

\* s.startswith(p)
startswith(s, p) == Len(p) <= Len(s) /\ Take(s, Len(p)) = p

\* s.endswith(p)
endswith(s, p) == Len(p) <= Len(s) /\ Drop(s, Len(s) - Len(p)) = p

\* s.find(sub) + 1: the first position where sub occurs, 0 when it does not
find(s, sub) ==
    LET hits == {i \in 1..(Len(s) - Len(sub) + 1) : SubSeq(s, i, i + Len(sub) - 1) = sub}
    IN  IF hits = {} THEN 0 ELSE CHOOSE i \in hits : \A j \in hits : i <= j

\* sub in s
contains(s, sub) == find(s, sub) # 0

\* s.lstrip(chars)
lstrip(s, chars) ==
    LET keep == {i \in 1..Len(s) : s[i] \notin chars}
    IN  IF keep = {} THEN <<>>
        ELSE Drop(s, (CHOOSE i \in keep : \A j \in keep : i <= j) - 1)

\* s.rstrip(chars)
rstrip(s, chars) ==
    LET keep == {i \in 1..Len(s) : s[i] \notin chars}
    IN  IF keep = {} THEN <<>>
        ELSE Take(s, CHOOSE i \in keep : \A j \in keep : i >= j)

\* s.strip(chars)
strip_chars(s, chars) == rstrip(lstrip(s, chars), chars)

\* s.strip()
strip(s) == strip_chars(s, Whitespace)

\* s.split(sep): every occurrence of sep cuts, empty pieces are kept
RECURSIVE split(_, _)
split(s, sep) ==
    LET i == find(s, sep)
    IN  IF i = 0 THEN <<s>>
        ELSE <<Take(s, i - 1)>> \o split(Drop(s, i - 1 + Len(sep)), sep)

\* s.split(sep, 1): at most one cut, at the first occurrence
split_once(s, sep) ==
    LET i == find(s, sep)
    IN  IF i = 0 THEN <<s>>
        ELSE <<Take(s, i - 1), Drop(s, i - 1 + Len(sep))>>

\* s.split(): cut on runs of whitespace, no empty pieces
RECURSIVE split_ws(_)
split_ws(s) ==
    LET t == lstrip(s, Whitespace)
        ends == {i \in 1..Len(t) : t[i] \in Whitespace}
        e == IF ends = {} THEN Len(t) + 1
             ELSE CHOOSE i \in ends : \A j \in ends : i <= j
    IN  IF t = <<>> THEN <<>>
        ELSE <<Take(t, e - 1)>> \o split_ws(Drop(t, e - 1))

\* sep.join(parts), used by the messages and to build query lines
RECURSIVE join(_, _)
join(parts, sep) ==
    IF parts = <<>> THEN <<>>
    ELSE IF Len(parts) = 1 THEN parts[1]
    ELSE parts[1] \o sep \o join(Tail(parts), sep)

\* float(s) is defined on this model's values when, stripped of whitespace,
\* s is a non-empty run of decimal digits; on every other value of the model
\* (letters) float raises ValueError
float_ok(s) ==
    LET t == strip(s) IN t # <<>> /\ \A i \in 1..Len(t) : t[i] \in Digits

RECURSIVE float_digits(_)
float_digits(t) ==
    IF t = <<>> THEN 0
    ELSE 10 * float_digits(Take(t, Len(t) - 1)) + DigitValue(t[Len(t)])

float(s) == float_digits(strip(s))

\* lst.index(x): the first position of x (1-based here), 0 when absent
index(lst, x) ==
    LET hits == {i \in 1..Len(lst) : lst[i] = x}
    IN  IF hits = {} THEN 0 ELSE CHOOSE i \in hits : \A j \in hits : i <= j

\* x in lst
in_list(x, lst) == \E i \in 1..Len(lst) : lst[i] = x

Range(s) == {s[i] : i \in 1..Len(s)}

-----------------------------------------------------------------------------
(* Python values and the outcome of a call.                                *)

\* a list of rows (isinstance(result, list) holds)
PyList(rows) == [type |-> "list", rows |-> rows, text |-> <<>>]

PyNone == [type |-> "NoneType", rows |-> <<>>, text |-> <<>>]

\* a str; its text is kept as the concatenation of its fragments
PyStr(text) == [type |-> "str", rows |-> <<>>, text |-> text]

\* a call that returned v
Return(v) == [exc |-> "none", val |-> v, msg |-> <<>>]

\* a call that raised exception class e with str(e) = msg
Raise(e, msg) == [exc |-> e, val |-> PyNone, msg |-> msg]

\* the classes the two programs can raise; all derive from Exception
ExceptionClasses == {"ValueError", "IndexError", "AttributeError", "TypeError"}

-----------------------------------------------------------------------------
(* self.relations                                                          *)

\* relation_name in self.relations
has_relation(rels, name) == \E i \in 1..Len(rels) : rels[i].name = name

\* self.relations[relation_name]
relation_of(rels, name) == rels[CHOOSE i \in 1..Len(rels) : rels[i].name = name]

not_found(name) == <<"Relation '">> \o name \o <<"' not found.">>

get_relation_data(rels, relation_name) ==
    IF ~has_relation(rels, relation_name)
    THEN Raise("ValueError", not_found(relation_name))
    ELSE Return(relation_of(rels, relation_name))

\* The position (from 1; Python counts from 0) of attr in the first relation
\* of the store, in dict order, that has an attribute of that name.
get_attribute_index(rels, attr) ==
    LET having == {i \in 1..Len(rels) : in_list(attr, rels[i].attributes)}
    IN  IF having = {}
        THEN Raise("ValueError", <<"Attribute '">> \o attr \o <<"' not found in any relation.">>)
        ELSE Return(index(rels[CHOOSE i \in having : \A j \in having : i <= j].attributes, attr))

could_not_convert(s) == <<"could not convert string to float: '">> \o s \o <<"'">>

evaluate_condition(value, operator, condition_value) ==
    IF operator = <<">">> \/ operator = <<"<">>
    THEN IF ~float_ok(value) THEN Raise("ValueError", could_not_convert(value))
         ELSE IF ~float_ok(condition_value)
              THEN Raise("ValueError", could_not_convert(condition_value))
         ELSE IF operator = <<">">> THEN Return(float(value) > float(condition_value))
         ELSE Return(float(value) < float(condition_value))
    ELSE IF operator = <<"=">> THEN Return(value = condition_value)
    ELSE Return(FALSE)

\* attr, operator, value = condition.split() with other than three pieces
unpack_error(n) ==
    IF n < 3 THEN <<"not enough values to unpack (expected 3)">>
    ELSE <<"too many values to unpack (expected 3)">>

Last(s) == s[Len(s)]

\* query.split('(')[-1].split(')')[0].strip()
after_last_paren(query) == strip(split(Last(split(query, <<"(">>)), <<")">>)[1])

\* query.split('{')[1].split('}')[0].strip(); IndexError when there is no '{'
has_brace(query) == Len(split(query, <<"{">>)) >= 2

in_braces(query) == strip(split(split(query, <<"{">>)[2], <<"}">>)[1])

index_error == Raise("IndexError", <<"list index out of range">>)

-----------------------------------------------------------------------------
(* Fileread.py                                                             *)
(*                                                                         *)
(* A method is an operator from its arguments to the outcome of the call   *)
(* (Return or Raise).  Where the Python text names an intermediate value   *)
(* and tests it more than once, the rest of the method is an operator of   *)
(* that value.                                                             *)

S_AND == <<"A", "N", "D">>

S_OR == <<"O", "R">>

strip_each(parts) == [i \in 1..Len(parts) |-> strip(parts[i])]

parse_conditions(condition_str) ==
    IF contains(condition_str, S_AND) THEN strip_each(split(condition_str, S_AND))
    ELSE IF contains(condition_str, S_OR) THEN strip_each(split(condition_str, S_OR))
    ELSE <<condition_str>>

\* row[col_index] and evaluate_condition on it, col the outcome of
\* get_attribute_index
evaluate_at(row, col, operator, value) ==
    IF col.exc # "none" THEN col
    ELSE IF col.val > Len(row) THEN index_error
    ELSE evaluate_condition(row[col.val], operator, value)

\* attr, operator, value = condition.split(); value = value.strip("'"); ...
evaluate_tokens(rels, row, toks) ==
    IF Len(toks) # 3 THEN Raise("ValueError", unpack_error(Len(toks)))
    ELSE evaluate_at(row, get_attribute_index(rels, toks[1]), toks[2],
                     strip_chars(toks[3], {"'"}))

\* One pass of the loop body of evaluate_conditions: the value appended to
\* results for one non-empty condition, or the exception it raises.
evaluate_one(rels, row, condition) == evaluate_tokens(rels, row, split_ws(condition))

\* all(results) once every condition was evaluated; the first exception
\* leaves the loop
\* any(results) in place of all(results)
any_results(first, rest) ==
    IF first.exc # "none" THEN first
    ELSE IF rest.exc # "none" THEN rest
    ELSE Return(first.val \/ rest.val)

all_results(first, rest) ==
    IF first.exc # "none" THEN first
    ELSE IF rest.exc # "none" THEN rest
    ELSE Return(first.val /\ rest.val)

RECURSIVE evaluate_conditions(_, _, _)
evaluate_conditions(rels, row, conditions) ==
    IF conditions = <<>> THEN Return(TRUE)
    ELSE IF Head(conditions) = <<>> THEN evaluate_conditions(rels, row, Tail(conditions))
    ELSE all_results(evaluate_one(rels, row, Head(conditions)),
                     evaluate_conditions(rels, row, Tail(conditions)))

\* one row of a list comprehension with an `if`: keep the outcome of the
\* test on row, rest the outcome of the comprehension on the later rows
comprehension(row, keep, rest) ==
    IF keep.exc # "none" THEN keep
    ELSE IF rest.exc # "none" THEN rest
    ELSE Return((IF keep.val THEN <<row>> ELSE <<>>) \o rest.val)

\* [row for row in data if self.evaluate_conditions(row, conditions)]
RECURSIVE filtered_data(_, _, _)
filtered_data(rels, data, conditions) ==
    IF data = <<>> THEN Return(<<>>)
    ELSE comprehension(Head(data), evaluate_conditions(rels, Head(data), conditions),
                       filtered_data(rels, Tail(data), conditions))

\* return [self.relations[relation_name]["attributes"]] + filtered_data
with_header(attributes, kept) ==
    IF kept.exc # "none" THEN kept ELSE Return(PyList(<<attributes>> \o kept.val))

selection_of(rels, relation_name, condition) ==
    IF ~has_relation(rels, relation_name)
    THEN Raise("ValueError", not_found(relation_name))
    ELSE with_header(relation_of(rels, relation_name).attributes,
                     filtered_data(rels, relation_of(rels, relation_name).data,
                                   parse_conditions(condition)))

selection(rels, query) ==
    IF ~has_brace(query) THEN index_error
    ELSE selection_of(rels, after_last_paren(query), in_braces(query))

\* [left_row + right_row for left_row in left for right_row in right]
\* the two `for` clauses of the comprehension exchanged
combined_data_right_first(left, right) ==
    [k \in 1..(Len(left) * Len(right)) |->
        left[((k - 1) % Len(left)) + 1] \o right[((k - 1) \div Len(left)) + 1]]

combined_data(left, right) ==
    [k \in 1..(Len(left) * Len(right)) |->
        left[((k - 1) \div Len(right)) + 1] \o right[((k - 1) % Len(right)) + 1]]

crossproduct_of(left_relation, right_relation) ==
    IF left_relation.exc # "none" THEN left_relation
    ELSE IF right_relation.exc # "none" THEN right_relation
    ELSE Return(PyList(<<left_relation.val.attributes \o right_relation.val.attributes>>
                       \o combined_data(left_relation.val.data, right_relation.val.data)))

crossproduct_names(rels, names) ==
    IF Len(names) # 2
    THEN Raise("ValueError", <<"Cross product requires exactly two relations.">>)
    ELSE crossproduct_of(get_relation_data(rels, strip(names[1])),
                         get_relation_data(rels, strip(names[2])))

crossproduct(rels, query) == crossproduct_names(rels, split(after_last_paren(query), <<"*">>))

\* [attr.strip() for attr in query.split('{')[1].split('}')[0].strip().split(',')]
requested_attributes(query) == strip_each(split(in_braces(query), <<",">>))

\* [[row[i] for i in col_indices] for row in data]
projected_data(rel_attributes, data, attributes) ==
    [r \in 1..Len(data) |->
        [a \in 1..Len(attributes) |-> data[r][index(rel_attributes, attributes[a])]]]

\* the return with the source's header, and no validation
project_source_header(rel_attributes, data, attributes, relation_query) ==
    Return(PyList(<<rel_attributes>>
                  \o [r \in 1..Len(data) |->
                         [a \in {b \in 1..Len(attributes) : in_list(attributes[b], rel_attributes)} |->
                             data[r][index(rel_attributes, attributes[a])]]]))

\* the loop that validates the attributes, and the return
project(rel_attributes, data, attributes, relation_query) ==
    LET absent == {a \in 1..Len(attributes) : ~in_list(attributes[a], rel_attributes)}
    IN  IF absent # {}
        THEN Raise("ValueError",
                   <<"Attribute '">> \o attributes[CHOOSE a \in absent : \A b \in absent : a <= b]
                   \o <<"' not found in relation '">> \o relation_query \o <<"'.">>)
        ELSE Return(PyList(<<attributes>> \o projected_data(rel_attributes, data, attributes)))

\* rel_attributes and data when the source is a cross product
project_cross(relation_data, attributes, relation_query) ==
    IF relation_data.exc # "none" THEN relation_data
    ELSE project(relation_data.val.rows[1], Tail(relation_data.val.rows), attributes,
                 relation_query)

projection_of(rels, relation_query, attributes) ==
    IF contains(relation_query, <<"*">>)
    THEN project_cross(crossproduct(rels, relation_query), attributes, relation_query)
    ELSE IF ~has_relation(rels, strip(relation_query))
         THEN Raise("ValueError", not_found(strip(relation_query)))
    ELSE project(relation_of(rels, strip(relation_query)).attributes,
                 relation_of(rels, strip(relation_query)).data, attributes, relation_query)

projection(rels, query) ==
    IF ~has_brace(query) THEN index_error
    ELSE projection_of(rels, after_last_paren(query), requested_attributes(query))

\* list(S) for a Python set S of tuples: the elements once each, in an order
\* that depends on the hashes of the strings (randomised per process), so
\* every enumeration is a possible outcome.
list_of_set(S) ==
    {s \in [1..Cardinality(S) -> S] : \A i, j \in 1..Cardinality(S) : s[i] = s[j] => i = j}

\* The possible outcomes of union once both relations were looked up.
union_of(left_relation, right_relation) ==
    IF left_relation.exc # "none" THEN {left_relation}
    ELSE IF right_relation.exc # "none" THEN {right_relation}
    ELSE IF left_relation.val.attributes # right_relation.val.attributes
         THEN {Raise("ValueError",
                     <<"Union requires both relations to have the same attributes.">>)}
    ELSE {Return(PyList(<<left_relation.val.attributes>> \o rows)) :
             rows \in list_of_set(Range(left_relation.val.data \o right_relation.val.data))}

union_names(rels, names) ==
    IF Len(names) # 2
    THEN {Raise("ValueError", <<"Union requires exactly two relations.">>)}
    ELSE union_of(get_relation_data(rels, strip(names[1])),
                  get_relation_data(rels, strip(names[2])))

\* The possible outcomes of union(query).
union(rels, query) == union_names(rels, split(after_last_paren(query), <<"U">>))

\* self.join, self.naturaljoin, self.AND, self.OR: SimpleDB defines none of them
no_attribute(method) ==
    Raise("AttributeError", <<"'SimpleDB' object has no attribute '", method, "'">>)

\* `not x` for a list or None
falsy(v) == v.type = "NoneType" \/ (v.type = "list" /\ v.rows = <<>>)

\* The possible outcomes of difference once both subqueries were evaluated
\* to left_relation and right_relation.
difference_of(left_relation, right_relation) ==
    IF falsy(left_relation) \/ falsy(right_relation) THEN {Return(PyNone)}
    ELSE IF Len(left_relation.rows[1]) # Len(right_relation.rows[1])
         THEN {Raise("ValueError", <<"The two relations must have the same number of columns for the difference operation.">>)}
    ELSE {Return(PyList(<<left_relation.rows[1]>> \o rows)) :
             rows \in list_of_set(Range(Tail(left_relation.rows))
                                  \ Range(Tail(right_relation.rows)))}

RECURSIVE evaluate_query(_, _)

difference_subqueries(rels, subqueries) ==
    IF Len(subqueries) # 2
    THEN {Raise("ValueError", <<"Invalid difference query format">>)}
    ELSE UNION {difference_of(l.val, r.val) :
                   l \in evaluate_query(rels, strip(subqueries[1]) \o <<")">>),
                   r \in evaluate_query(rels, <<"(">> \o strip(subqueries[2]))}

\* The possible outcomes of difference(query).
difference(rels, query) ==
    difference_subqueries(rels, split(query, <<")", " ", "-", " ", "(">>))

S_SELE == <<"S", "E", "L", "E">>

S_PROJ == <<"P", "R", "O", "J">>

S_JOIN == <<"J", "O", "I", "N">>

\* The if/elif chain shared by process_queries_from_file (lines 27-40) and
\* evaluate_query (lines 178-191), up to the `-` branch: the possible
\* outcomes, or {} when no branch up to there takes the query.
by_prefix(rels, query) ==
    IF startswith(query, S_SELE) THEN {selection(rels, query)}
    ELSE IF startswith(query, S_PROJ) THEN {projection(rels, query)}
    ELSE IF startswith(query, <<"X">>) THEN {crossproduct(rels, query)}
    ELSE IF startswith(query, S_JOIN) THEN {no_attribute("join")}
    ELSE IF startswith(query, <<"*">>) THEN {no_attribute("naturaljoin")}
    ELSE IF startswith(query, <<"U">>) THEN union(rels, query)
    ELSE IF startswith(query, <<"-">>) THEN difference(rels, query)
    ELSE {}

\* else: return None; except Exception: return None
none_on_failure(got) ==
    IF got = {} THEN {Return(PyNone)}
    ELSE {IF o.exc = "none" THEN o ELSE Return(PyNone) : o \in got}

evaluate_query(rels, query) == none_on_failure(by_prefix(rels, strip(query)))

\* the last branches of the chain of process_queries_from_file (lines 41-46)
last_branches(got, query) ==
    IF got # {} THEN got
    ELSE IF startswith(query, <<",">>) THEN {no_attribute("AND")}
    ELSE IF startswith(query, S_OR) THEN {no_attribute("OR")}
    ELSE {Return(PyNone)}

\* The try body of the loop of process_queries_from_file: the possible
\* values of `result`, or the exception that reaches the except clause.
F_evaluate(rels, query) == last_branches(by_prefix(rels, query), query)

-----------------------------------------------------------------------------
(* newonetest.py                                                           *)

\* [row for row in data if self.evaluate_condition(row[col_index], operator, value)]
RECURSIVE N_filtered_data(_, _, _, _)
N_filtered_data(data, col_index, operator, value) ==
    IF data = <<>> THEN Return(<<>>)
    ELSE comprehension(Head(data),
                       evaluate_condition(Head(data)[col_index], operator, value),
                       N_filtered_data(Tail(data), col_index, operator, value))

\* return filtered_data
as_list(kept) == IF kept.exc # "none" THEN kept ELSE Return(PyList(kept.val))

N_selection_tokens(rel, relation_name, toks) ==
    IF Len(toks) # 3 THEN Raise("ValueError", unpack_error(Len(toks)))
    ELSE IF ~in_list(toks[1], rel.attributes)
         THEN Raise("ValueError", <<"Attribute '">> \o toks[1]
                    \o <<"' not found in relation '">> \o relation_name \o <<"'.">>)
    ELSE as_list(N_filtered_data(rel.data, index(rel.attributes, toks[1]), toks[2],
                                 strip_chars(toks[3], {"'"})))

N_selection_of(rels, relation_name, condition) ==
    IF ~has_relation(rels, relation_name)
    THEN Raise("ValueError", not_found(relation_name))
    ELSE N_selection_tokens(relation_of(rels, relation_name), relation_name,
                            split_ws(condition))

N_selection(rels, query) ==
    IF ~has_brace(query) THEN index_error
    ELSE N_selection_of(rels, after_last_paren(query), in_braces(query))

\* the validation loop and `return projected_data`
N_project(rel, attributes, relation_name) ==
    LET absent == {a \in 1..Len(attributes) : ~in_list(attributes[a], rel.attributes)}
    IN  IF absent # {}
        THEN Raise("ValueError",
                   <<"Attribute '">> \o attributes[CHOOSE a \in absent : \A b \in absent : a <= b]
                   \o <<"' not found in relation '">> \o relation_name \o <<"'.">>)
        ELSE Return(PyList(projected_data(rel.attributes, rel.data, attributes)))

N_projection_of(rels, relation_name, attributes) ==
    IF ~has_relation(rels, relation_name)
    THEN Raise("ValueError", not_found(relation_name))
    ELSE N_project(relation_of(rels, relation_name), attributes, relation_name)

N_projection(rels, query) ==
    IF ~has_brace(query) THEN index_error
    ELSE N_projection_of(rels, after_last_paren(query), requested_attributes(query))

\* left, right = query.split(sep, 1); return left.strip(), right.strip()
\* (parse_union_query, parse_difference_query; sep occurs in query)
parse_binary_query(query, sep) == strip_each(split_once(query, sep))

\* left_result + [row for row in right_result if row not in left_result]
union_result(left_result, right_result) ==
    IF left_result.exc # "none" THEN left_result
    ELSE IF right_result.exc # "none" THEN right_result
    ELSE Return(PyList(left_result.val.rows
                       \o SelectSeq(right_result.val.rows,
                                    LAMBDA row : ~in_list(row, left_result.val.rows))))

RECURSIVE execute_query(_, _)

N_union_parsed(rels, parsed) ==
    union_result(execute_query(rels, parsed[1]), execute_query(rels, parsed[2]))

\* the chain of execute_query after the parentheses were removed
execute_stripped(rels, q) ==
    IF contains(q, <<"U">>) THEN N_union_parsed(rels, parse_binary_query(q, <<"U">>))
    ELSE IF contains(q, <<"-">>)
         THEN Raise("TypeError", <<"SimpleDB.difference() takes 2 positional arguments but 3 were given">>)
    ELSE IF startswith(q, S_SELE) THEN N_selection(rels, q)
    ELSE IF startswith(q, S_PROJ) THEN N_projection(rels, q)
    ELSE IF startswith(q, <<"X">>) THEN no_attribute("crossproduct")
    ELSE Return(PyList(<<>>))

execute_query(rels, query) ==
    IF startswith(query, <<"(">>) /\ endswith(query, <<")">>)
    THEN execute_stripped(rels, strip(SubSeq(query, 2, Len(query) - 1)))
    ELSE execute_stripped(rels, query)

-----------------------------------------------------------------------------
(* The loop and the report of process_queries_from_file (both variants).   *)

\* except Exception as e: every class the programs raise is caught
\* `except ValueError` in place of `except Exception`
except_ValueError(exc) == exc = "ValueError"

except_Exception(exc) == exc \in ExceptionClasses

\* f"Error: {str(e)}"
error_result(o) == PyStr(<<"Error: ">> \o o.msg)

\* a selection that filters the stored list itself
store_filtered_in_place(rels, query) ==
    [i \in 1..Len(rels) |->
        IF startswith(query, S_SELE) /\ rels[i].name = after_last_paren(query)
        THEN [rels[i] EXCEPT !.data = SelectSeq(rels[i].data, LAMBDA row : row[1] = <<"1">>)]
        ELSE rels[i]]

\* The operators build their results with +, comprehensions and list(...);
\* none assigns to self.relations or to a list reached from it, so the store
\* after a query line is the store before it.
store_after_query(rels, query) == rels

\* writer.writerow([query]); writer.writerows(result) if it is a list;
\* writer.writerow([]) -- for every (query, result) of results, in order.
\* The report is the sequence of the rows written, a row the sequence of its
\* fields.
RECURSIVE written(_)
written(res) ==
    IF res = <<>> THEN <<>>
    ELSE <<<<Head(res)[1]>>>>
         \o (IF Head(res)[2].type = "list" THEN Head(res)[2].rows ELSE <<>>)
         \o <<<<>>>>
         \o written(Tail(res))

-----------------------------------------------------------------------------
(* The inputs: the files of the data directory and the lines of the query  *)
(* file.  Names and values follow the source and its documentation:        *)
(* relation names in capitals, attribute names in lower case, values of    *)
(* letters or of decimal digits.                                           *)

n_EMP == <<"E", "M", "P">>

n_DEPT == <<"D", "E", "P", "T">>

n_PAY == <<"P", "A", "Y">>

n_OLD == <<"O", "L", "D">>

n_BONUS == <<"B", "O", "N", "U", "S">>

n_GHOST == <<"G", "H", "O", "S", "T">>

a_id == <<"i", "d">>

a_name == <<"n", "a", "m", "e">>

a_salary == <<"s", "a", "l", "a", "r", "y">>

a_dname == <<"d", "n", "a", "m", "e">>

a_ghost == <<"g", "h", "o", "s", "t">>

v_Al == <<"A", "l">>

v_Bo == <<"B", "o">>

v_Cy == <<"C", "y">>

v_Eng == <<"E", "n", "g">>

dot_csv == <<".", "c", "s", "v">>

\* a file of the directory: its name, its first record, its other records
File(filename, header, records) ==
    [filename |-> filename, header |-> header, records |-> records]

f_EMP ==
    File(n_EMP \o dot_csv, <<a_id, a_name, a_salary>>,
         << <<<<"1">>, v_Al, <<"5", "0">>>>, <<<<"2">>, v_Bo, <<"9", "0">>>> >>)

f_DEPT == File(n_DEPT \o dot_csv, <<a_id, a_dname>>, << <<<<"1">>, v_Eng>> >>)

f_PAY ==
    File(n_PAY \o dot_csv, <<a_name, a_salary>>,
         << <<v_Al, <<"5", "0">>>>, <<v_Bo, <<"9", "0">>>> >>)

f_OLD ==
    File(n_OLD \o dot_csv, <<a_name, a_salary>>,
         << <<v_Bo, <<"9", "0">>>>, <<v_Cy, <<"7", "0">>>>, <<v_Bo, <<"9", "0">>>> >>)

f_BONUS == File(n_BONUS \o dot_csv, <<a_name, a_salary>>, << <<v_Cy, <<"7", "0">>>> >>)

f_README == File(<<"R", "E", "A", "D", "M", "E">>, <<>>, <<>>)

Directories == {{f_EMP, f_DEPT}, {f_EMP, f_PAY, f_OLD}, {f_PAY, f_BONUS, f_README}}

\* The body of load_relations over one listing of the directory.
RECURSIVE loaded(_)
loaded(listing) ==
    IF listing = <<>> THEN <<>>
    ELSE (IF endswith(Head(listing).filename, dot_csv)
          THEN <<[name |-> Take(Head(listing).filename, Len(Head(listing).filename) - 4),
                  attributes |-> Head(listing).header,
                  data |-> Head(listing).records]>>
          ELSE <<>>)
         \o loaded(Tail(listing))

\* a predicate attr op 'lit' and its text
Pred(attr, op, lit) == [attr |-> attr, op |-> op, lit |-> lit]

pred_text(p) == p.attr \o <<" ">> \o p.op \o <<" ", "'">> \o p.lit \o <<"'">>

\* <<p1, .., pn>> written p1 SEP p2 SEP .. pn
cond_text(preds, sep) ==
    join([i \in 1..Len(preds) |-> pred_text(preds[i])], <<" ">> \o sep \o <<" ">>)

Predicates ==
    {Pred(a_salary, <<">">>, <<"6", "0">>), Pred(a_salary, <<"<">>, <<"6", "0">>),
     Pred(a_name, <<"=">>, v_Bo), Pred(a_name, <<"=">>, v_Al),
     Pred(a_id, <<"=">>, <<"1">>), Pred(a_salary, <<"=">>, v_Al),
     Pred(a_dname, <<"=">>, v_Eng), Pred(a_ghost, <<"=">>, <<"1">>)}

PredicatePairs ==
    {<<Pred(a_name, <<"=">>, v_Bo), Pred(a_salary, <<">">>, <<"6", "0">>)>>,
     <<Pred(a_name, <<"=">>, v_Al), Pred(a_salary, <<">">>, <<"6", "0">>)>>,
     <<Pred(a_salary, <<"=">>, v_Al), Pred(a_id, <<"=">>, <<"1">>)>>,
     <<Pred(a_salary, <<">">>, <<"6", "0">>), Pred(a_salary, <<"<">>, <<"6", "0">>)>>,
     <<Pred(a_name, <<"=">>, v_Bo), Pred(a_ghost, <<"=">>, <<"1">>)>>}

PredicateLists == {<<p>> : p \in Predicates} \cup PredicatePairs

AttributeLists ==
    {<<a_name>>, <<a_salary, a_name>>, <<a_name, a_name>>, <<a_ghost>>, <<a_dname, a_id>>}

\* SELE (R) {condition}
Q_SELE(r, cond) == S_SELE \o <<" ", "(">> \o r \o <<")", " ", "{">> \o cond \o <<"}">>

\* PROJ (source) {a1,..,an}
Q_PROJ(source, attributes) ==
    S_PROJ \o <<" ", "(">> \o source \o <<")", " ", "{">> \o join(attributes, <<",">>) \o <<"}">>

\* A * B
star(a, b) == a \o <<" ", "*", " ">> \o b

\* X (A * B)
Q_X(a, b) == <<"X", " ", "(">> \o star(a, b) \o <<")">>

\* U (A U B)
Q_U(a, b) == <<"U", " ", "(">> \o a \o <<" ", "U", " ">> \o b \o <<")">>

\* (left) - (right), the text difference() cuts at ") - ("
Q_MINUS(left, right) == <<"(">> \o left \o <<")", " ", "-", " ", "(">> \o right \o <<")">>

\* the same after the `-` that sends a line to difference()
Q_DIFF(left, right) == <<"-", " ">> \o Q_MINUS(left, right)

SelectNames == {n_EMP, n_PAY, n_DEPT, n_GHOST}

CrossNames == {n_EMP, n_DEPT, n_PAY, n_GHOST}

UnionNames == {n_PAY, n_OLD, n_EMP, n_BONUS, n_GHOST}

NestedNames == {n_EMP, n_PAY}

\* sub-expressions of the difference queries: <<text, relation, attributes>>
\* for PROJ (relation) {attributes}
SubProjections ==
    {<<n_PAY, <<a_name>>>>, <<n_OLD, <<a_name>>>>, <<n_PAY, <<a_name, a_salary>>>>,
     <<n_OLD, <<a_name, a_salary>>>>, <<n_EMP, <<a_id>>>>}

Selections ==
    {Q_SELE(r, cond_text(ps, sep)) : r \in SelectNames, ps \in PredicateLists, sep \in {S_AND, S_OR}}
    \cup {Q_SELE(r, c) : r \in SelectNames, c \in {<<>>, a_salary \o <<" ", ">">>}}

Projections ==
    {Q_PROJ(s, al) : s \in {n_EMP, n_PAY, n_GHOST, star(n_EMP, n_DEPT), star(n_PAY, n_OLD),
                            star(n_EMP, n_GHOST), star(n_EMP, star(n_DEPT, n_EMP))},
                     al \in AttributeLists}

NestedProjections ==
    {Q_PROJ(Q_SELE(r, pred_text(p)), al) :
        r \in NestedNames,
        p \in {Pred(a_salary, <<">">>, <<"6", "0">>), Pred(a_name, <<"=">>, v_Bo)},
        al \in {<<a_name>>, <<a_salary, a_name>>}}

CrossProducts ==
    {Q_X(a, b) : a \in CrossNames, b \in CrossNames}
    \cup {<<"X", " ", "(">> \o n_EMP \o <<")">>,
          <<"X", " ", "(">> \o star(n_EMP, star(n_DEPT, n_EMP)) \o <<")">>}

Unions ==
    {Q_U(a, b) : a \in UnionNames, b \in UnionNames}
    \cup {<<"U", " ", "(">> \o n_PAY \o <<")">>, n_EMP \o <<" ", "U", " ">> \o n_EMP}

Differences ==
    {Q_DIFF(Q_PROJ(l[1], l[2]), Q_PROJ(r[1], r[2])) : l \in SubProjections, r \in SubProjections}
    \cup {Q_MINUS(Q_PROJ(l[1], l[2]), Q_PROJ(l[1], l[2])) : l \in SubProjections}
    \cup {<<"-", " ">> \o n_PAY \o <<" ", "-", " ">> \o n_OLD}

Others ==
    {S_JOIN \o <<" ", "(">> \o star(n_EMP, n_DEPT) \o <<")">>,
     <<"*", " ", "(">> \o star(n_EMP, n_DEPT) \o <<")">>,
     <<",", " ", "(">> \o n_EMP \o <<")">>,
     S_OR \o <<" ", "(">> \o n_EMP \o <<")">>,
     <<>>, <<"h", "e", "l", "l", "o">>,
     S_SELE \o <<" ", "(">> \o n_EMP \o <<")">>,
     S_PROJ \o <<" ", "(">> \o n_EMP \o <<")">>}

QueryTexts ==
    Selections \cup Projections \cup NestedProjections \cup CrossProducts
    \cup Unions \cup Differences \cup Others

\* a line as readlines() returns it
Line(text) == text \o <<"\n">>

\* the lines of the batches of several lines: succeeding on some store and
\* failing on others, always failing, blank, unrecognised
MixedLines ==
    {Line(Q_SELE(n_EMP, pred_text(Pred(a_salary, <<">">>, <<"6", "0">>)))),
     Line(Q_X(n_EMP, n_DEPT)),
     Line(Q_SELE(n_GHOST, pred_text(Pred(a_name, <<"=">>, v_Bo)))),
     Line(<<>>),
     <<" ", "h", "e", "l", "l", "o">>}

\* the longest query file of several lines
MaxLines == 3

RECURSIVE SeqsUpTo(_, _)
SeqsUpTo(S, n) ==
    IF n = 0 THEN {<<>>}
    ELSE LET shorter == SeqsUpTo(S, n - 1)
         IN  shorter \cup {Append(s, x) : s \in {t \in shorter : Len(t) = n - 1}, x \in S}

QueryFiles == {<<Line(q)>> : q \in QueryTexts} \cup SeqsUpTo(MixedLines, MaxLines)

-----------------------------------------------------------------------------
(* The program: db = SimpleDB(); db.load_relations(..);                    *)
(* db.process_queries_from_file(..)                                        *)

Init ==
    /\ impl \in {"Fileread", "newonetest"}
    /\ relations = <<>>
    /\ queries = <<>>
    /\ results = <<>>
    /\ out_file = <<>>
    /\ pc = "load"

\* os.listdir returns the files in an arbitrary order
load_relations ==
    /\ pc = "load"
    /\ \E dir \in Directories : \E listing \in list_of_set(dir) :
          relations' = loaded(listing)
    /\ pc' = "read"
    /\ UNCHANGED <<impl, queries, results, out_file>>

\* queries = f.readlines(); results = []
readlines ==
    /\ pc = "read"
    /\ queries' \in QueryFiles
    /\ results' = <<>>
    /\ pc' = "loop"
    /\ UNCHANGED <<impl, relations, out_file>>

\* what one pass of the loop does with the outcome o for the line `query`
loop_body(query, o) ==
    /\ relations' = store_after_query(relations, query)
    /\ IF o.exc = "none"
       THEN results' = Append(results, <<query, o.val>>) /\ pc' = "loop"
       ELSE IF except_Exception(o.exc)
            THEN results' = Append(results, <<query, error_result(o)>>) /\ pc' = "loop"
            ELSE results' = results /\ pc' = "aborted"
    /\ UNCHANGED <<impl, queries, out_file>>

\* Fileread.py, one pass of `for query in queries`
F_loop ==
    /\ pc = "loop" /\ impl = "Fileread"
    /\ Len(results) < Len(queries)
    /\ LET query == strip(queries[Len(results) + 1])
       IN  \E o \in F_evaluate(relations, query) : loop_body(query, o)

\* newonetest.py, one pass of `for query in queries`
N_loop ==
    /\ pc = "loop" /\ impl = "newonetest"
    /\ Len(results) < Len(queries)
    /\ LET query == strip(queries[Len(results) + 1])
       IN  loop_body(query, execute_query(relations, query))

\* after the loop: the report is written from results
write_results ==
    /\ pc = "loop"
    /\ Len(results) = Len(queries)
    /\ out_file' = written(results)
    /\ pc' = "done"
    /\ UNCHANGED <<impl, relations, queries, results>>

Next == load_relations \/ readlines \/ F_loop \/ N_loop \/ write_results

Spec == Init /\ [][Next]_vars

-----------------------------------------------------------------------------
(* What the claims speak of: the relational reading of a query, stated on  *)
(* the structure the query text was built from, not on its parse.          *)

Processed == 1..Len(results)

LineOf(k) == results[k][1]

ResultOf(k) == results[k][2]

\* the line's evaluation raised and the exception was captured
Failed(k) == ResultOf(k).type = "str"

Stored(name) == \E i \in 1..Len(relations) : relations[i].name = name

Rel(name) == relations[CHOOSE i \in 1..Len(relations) : relations[i].name = name]

\* the column of attribute a in the attribute list attrs
Column(attrs, a) == CHOOSE i \in 1..Len(attrs) : attrs[i] = a /\ \A j \in 1..(i - 1) : attrs[j] # a

HasAttribute(attrs, a) == \E i \in 1..Len(attrs) : attrs[i] = a

IsNumber(v) == v # <<>> /\ \A i \in 1..Len(v) : v[i] \in Digits

\* > and < compare numbers, = compares text
Comparable(v, p) == p.op = <<"=">> \/ (IsNumber(v) /\ IsNumber(p.lit))

\* predicate p holds of the value v
PredTrue(v, p) ==
    IF p.op = <<"=">> THEN v = p.lit
    ELSE IF p.op = <<">">> THEN float(v) > float(p.lit)
    ELSE float(v) < float(p.lit)

\* every predicate of ps holds of row, each on the row's column of that name
RowSatisfies(attrs, row, ps) ==
    \A i \in 1..Len(ps) : PredTrue(row[Column(attrs, ps[i].attr)], ps[i])

\* row reduced to the columns al
Reduced(attrs, row, al) == [a \in 1..Len(al) |-> row[Column(attrs, al[a])]]

ReducedRows(attrs, rows, al) == [r \in 1..Len(rows) |-> Reduced(attrs, rows[r], al)]

\* the rows of A x B, A's row slowest
CrossRows(A, B) ==
    [n \in 1..(Len(A) * Len(B)) |-> A[((n - 1) \div Len(B)) + 1] \o B[((n - 1) % Len(B)) + 1]]

NoDuplicates(rows) == \A i, j \in 1..Len(rows) : rows[i] = rows[j] => i = j

\* the report cut at its blank rows
RECURSIVE Entries(_)
Entries(rows) ==
    LET blanks == {i \in 1..Len(rows) : rows[i] = <<>>}
        first == CHOOSE i \in blanks : \A j \in blanks : i <= j
    IN  IF rows = <<>> THEN <<>>
        ELSE IF blanks = {} THEN <<rows>>
        ELSE <<Take(rows, first - 1)>> \o Entries(Drop(rows, first))

-----------------------------------------------------------------------------
\* C1: whatever the lines of the batch (succeeding, failing, blank,
\* unrecognised), in both variants the loop never stops on a failing line:
\* no exception leaves it, the next line always has an outcome, results holds
\* the lines taken so far in input order, and the finished report has exactly
\* one entry per input line, the k-th headed by the k-th line.
C1_OneEntryPerLine ==
    /\ pc # "aborted"
    /\ (pc = "loop" /\ Len(results) < Len(queries) /\ impl = "Fileread")
          => F_evaluate(relations, strip(queries[Len(results) + 1])) # {}
    /\ Len(results) <= Len(queries)
    /\ \A k \in Processed : LineOf(k) = strip(queries[k])
    /\ pc = "done" =>
          /\ Len(Entries(out_file)) = Len(queries)
          /\ \A k \in 1..Len(queries) : Entries(out_file)[k][1] = <<strip(queries[k])>>

\* a finished batch in which a line failed and a later line gave rows
C1_Witness ==
    /\ pc = "done"
    /\ \E k \in Processed : \E m \in Processed :
          k < m /\ Failed(k) /\ ResultOf(m).type = "list" /\ Len(ResultOf(m).rows) > 1

\* C2: for every line whose evaluation failed, the entry of the report is the
\* query text, then one line describing the error, and no other row.
C2_ErrorLineWritten ==
    pc = "done" =>
        \A k \in Processed :
            Failed(k) =>
                /\ Len(Entries(out_file)[k]) = 2
                /\ Entries(out_file)[k][1] = <<LineOf(k)>>
                /\ Entries(out_file)[k][2] = <<ResultOf(k).text>>

\* a finished report whose entry for a failed line is the query text alone
C2_Witness ==
    /\ pc = "done"
    /\ \E k \in Processed : Failed(k) /\ Entries(out_file)[k] = <<<<LineOf(k)>>>>

\* C3: PROJ (SELE (R) {c}) {a1,..,an}, R stored and a1..an attributes of R,
\* gives the header [a1..an] and the rows of R that satisfy c, in R's order,
\* each reduced to a1..an.
C3_ProjectionOfSelection ==
    \A k \in Processed : \A r \in NestedNames : \A p \in Predicates : \A al \in AttributeLists :
        (/\ LineOf(k) = Q_PROJ(Q_SELE(r, pred_text(p)), al)
         /\ Stored(r)
         /\ HasAttribute(Rel(r).attributes, p.attr)
         /\ \A a \in 1..Len(al) : HasAttribute(Rel(r).attributes, al[a]))
        => ResultOf(k) =
              PyList(<<al>> \o ReducedRows(Rel(r).attributes,
                                           SelectSeq(Rel(r).data,
                                                     LAMBDA row : RowSatisfies(Rel(r).attributes, row, <<p>>)),
                                           al))

\* the projection of a selection of a stored relation was evaluated, and failed
C3_Witness ==
    \E k \in Processed :
        /\ LineOf(k) = Q_PROJ(Q_SELE(n_EMP, pred_text(Pred(a_salary, <<">">>, <<"6", "0">>))),
                              <<a_name>>)
        /\ Stored(n_EMP)
        /\ Failed(k)

\* C4 (Fileread.py): SELE over a stored relation R resolves each predicate's
\* attribute in R's own attribute list, failing if R lacks it; the result is
\* R's attributes followed by exactly the rows of R, in order, of which every
\* predicate holds on R's column of that name, so at most |R.rows| rows.
C4_SelectionOnOwnColumns ==
    \A k \in Processed : \A r \in SelectNames : \A ps \in PredicateLists : \A sep \in {S_AND, S_OR} :
        (impl = "Fileread" /\ LineOf(k) = Q_SELE(r, cond_text(ps, sep)) /\ Stored(r))
        => IF \E i \in 1..Len(ps) : ~HasAttribute(Rel(r).attributes, ps[i].attr)
           THEN Failed(k)
           ELSE IF \E i \in 1..Len(ps) : \E n \in 1..Len(Rel(r).data) :
                      ~Comparable(Rel(r).data[n][Column(Rel(r).attributes, ps[i].attr)], ps[i])
                THEN Failed(k)
           ELSE /\ ResultOf(k) =
                      PyList(<<Rel(r).attributes>>
                             \o SelectSeq(Rel(r).data,
                                          LAMBDA row : RowSatisfies(Rel(r).attributes, row, ps)))
                /\ Len(ResultOf(k).rows) - 1 <= Len(Rel(r).data)

\* a selection of EMP on its own attribute salary failed, the store holding
\* another relation with an attribute salary before EMP
C4_Witness ==
    \E k \in Processed :
        /\ impl = "Fileread" /\ Stored(n_EMP) /\ relations[1].name = n_PAY
        /\ LineOf(k) = Q_SELE(n_EMP, pred_text(Pred(a_salary, <<">">>, <<"6", "0">>)))
        /\ Failed(k)

\* C5 (Fileread.py): a difference of two sub-expressions A and B with as many
\* columns gives A's attributes as header and exactly the rows of A's row-set
\* that are not in B's; the difference of A with itself gives the header and
\* no row, not "no result".
C5_DifferenceRows ==
    \A k \in Processed : \A l \in SubProjections : \A r \in SubProjections :
        (/\ impl = "Fileread"
         /\ LineOf(k) = Q_DIFF(Q_PROJ(l[1], l[2]), Q_PROJ(r[1], r[2]))
         /\ Stored(l[1]) /\ Stored(r[1])
         /\ Len(l[2]) = Len(r[2]))
        => /\ ResultOf(k).type = "list"
           /\ ResultOf(k).rows # <<>>
           /\ ResultOf(k).rows[1] = l[2]
           /\ NoDuplicates(Tail(ResultOf(k).rows))
           /\ Range(Tail(ResultOf(k).rows))
                 = Range(ReducedRows(Rel(l[1]).attributes, Rel(l[1]).data, l[2]))
                   \ Range(ReducedRows(Rel(r[1]).attributes, Rel(r[1]).data, r[2]))

\* a difference of two projections of stored relations gave no result
C5_Witness ==
    \E k \in Processed :
        /\ impl = "Fileread" /\ Stored(n_PAY) /\ Stored(n_OLD)
        /\ LineOf(k) = Q_DIFF(Q_PROJ(n_PAY, <<a_name>>), Q_PROJ(n_OLD, <<a_name>>))
        /\ ResultOf(k) = PyNone

\* C6 (Fileread.py): a union of two stored relations A and B fails when their
\* attribute sequences differ; otherwise it gives the shared attributes and
\* the set union of the rows of A and B, no row twice.
C6_UnionRows ==
    \A k \in Processed : \A a \in UnionNames : \A b \in UnionNames :
        (impl = "Fileread" /\ LineOf(k) = Q_U(a, b) /\ Stored(a) /\ Stored(b))
        => IF Rel(a).attributes # Rel(b).attributes THEN Failed(k)
           ELSE /\ ResultOf(k).type = "list"
                /\ ResultOf(k).rows # <<>>
                /\ ResultOf(k).rows[1] = Rel(a).attributes
                /\ NoDuplicates(Tail(ResultOf(k).rows))
                /\ Range(Tail(ResultOf(k).rows)) = Range(Rel(a).data) \cup Range(Rel(b).data)

\* the union of a stored relation with itself failed
C6_Witness ==
    \E k \in Processed :
        /\ impl = "Fileread" /\ Stored(n_BONUS)
        /\ LineOf(k) = Q_U(n_BONUS, n_BONUS)
        /\ Failed(k)

\* C7 (Fileread.py): X (A * B) over stored A and B gives A's attributes
\* followed by B's, and |A.rows| x |B.rows| rows, the row of A's i-th and
\* B's j-th row at place (i - 1) * |B.rows| + j; an operand text that does
\* not split in two on `*` fails.
C7_CrossProduct ==
    \A k \in Processed :
        impl = "Fileread" =>
            /\ \A a \in CrossNames : \A b \in CrossNames :
                  (LineOf(k) = Q_X(a, b) /\ Stored(a) /\ Stored(b))
                  => /\ ResultOf(k).type = "list"
                     /\ Len(ResultOf(k).rows) = 1 + Len(Rel(a).data) * Len(Rel(b).data)
                     /\ ResultOf(k).rows[1] = Rel(a).attributes \o Rel(b).attributes
                     /\ \A i \in 1..Len(Rel(a).data) : \A j \in 1..Len(Rel(b).data) :
                           ResultOf(k).rows[1 + (i - 1) * Len(Rel(b).data) + j]
                              = Rel(a).data[i] \o Rel(b).data[j]
            /\ LineOf(k) \in {<<"X", " ", "(">> \o n_EMP \o <<")">>,
                              <<"X", " ", "(">> \o star(n_EMP, star(n_DEPT, n_EMP)) \o <<")">>}
                  => Failed(k)

\* a cross product of two relations of two rows each was evaluated
C7_Witness ==
    \E k \in Processed :
        /\ impl = "Fileread" /\ LineOf(k) = Q_X(n_EMP, n_PAY)
        /\ Stored(n_EMP) /\ Stored(n_PAY)
        /\ Len(ResultOf(k).rows) = 5

\* C8 (Fileread.py): PROJ over a stored relation, or over A * B of two stored
\* relations, fails when a requested attribute is absent from the source;
\* otherwise it gives the requested attributes as header and every source
\* row, in order, reduced to the requested columns, the rows of A * B being
\* those of the cross product of A and B.
C8_Projection ==
    \A k \in Processed : \A al \in AttributeLists :
        impl = "Fileread" =>
            /\ \A r \in {n_EMP, n_PAY, n_DEPT} :
                  (LineOf(k) = Q_PROJ(r, al) /\ Stored(r))
                  => IF \E a \in 1..Len(al) : ~HasAttribute(Rel(r).attributes, al[a])
                     THEN Failed(k)
                     ELSE ResultOf(k) =
                             PyList(<<al>> \o ReducedRows(Rel(r).attributes, Rel(r).data, al))
            /\ \A a \in CrossNames : \A b \in CrossNames :
                  (LineOf(k) = Q_PROJ(star(a, b), al) /\ Stored(a) /\ Stored(b))
                  => IF \E c \in 1..Len(al) :
                           ~HasAttribute(Rel(a).attributes \o Rel(b).attributes, al[c])
                     THEN Failed(k)
                     ELSE ResultOf(k) =
                             PyList(<<al>> \o ReducedRows(Rel(a).attributes \o Rel(b).attributes,
                                                          CrossRows(Rel(a).data, Rel(b).data),
                                                          al))

\* a projection over a cross product of four rows gave its four reduced rows
C8_Witness ==
    \E k \in Processed :
        /\ impl = "Fileread" /\ LineOf(k) = Q_PROJ(star(n_PAY, n_OLD), <<a_salary, a_name>>)
        /\ Stored(n_PAY) /\ Stored(n_OLD)
        /\ ResultOf(k).type = "list" /\ Len(ResultOf(k).rows) = 7

====
